---- MODULE Spec2Model ----
(***************************************************************************)
(* A model of KandoApp (src/main/app.ts): the host-process orchestrator of *)
(* the Kando pie menu.  The state is the fields of the KandoApp object,    *)
(* the Electron window it owns, the Node.js timers it has armed and the    *)
(* promises it is waiting for; there is one action per method segment      *)
(* (the code between two awaits), per IPC handler, per promise             *)
(* continuation and per timer callback.  JavaScript runs every one of     *)
(* these to completion on one event loop, so each is one atomic action.    *)
(***************************************************************************)
EXTENDS Integers, Sequences, FiniteSets, TLC

VARIABLES
    backend,      \* this.backend: "null" or "present"            (app.ts:30)
    displays,     \* the displays Electron's screen module reports; [1] is primary
    menus,        \* menuSettings.get('menus'), as object references (app.ts:55-61)
    initPc,       \* where init() stands                         (app.ts:64-111)
    quitPc,       \* where quit() stands                         (app.ts:114-121)
    subscribed,   \* appSettings.onChange subscriptions made     (app.ts:73-79)
    closed,       \* which Settings stores have been closed      (app.ts:119-120)
    window,       \* this.window and the BrowserWindow it names   (app.ts:35)
    ipc,          \* TRUE once initRendererIPC has run           (app.ts:206-238)
    tray,         \* TRUE once the tray and its menu exist       (app.ts:89-98)
    shortcut,     \* the backend's view of the trigger binding   (app.ts:103-110)
    hideTimeout,  \* this.hideTimeout                            (app.ts:38)
    timers,       \* the pending Node.js timers
    nextTimer,    \* the number of timers armed so far
    wmPending,    \* getWMInfo() promises not yet settled        (app.ts:129-130)
    step          \* the last handler that ran, its input (a message's
                  \* payload, or the promise that settled) and its effects in order

vars == <<backend, displays, menus, initPc, quitPc, subscribed, closed, window,
          ipc, tray, shortcut, hideTimeout, timers, nextTimer, wmPending, step>>

----------------------------------------------------------------------------
(* Bounds of the model *)

\* Timers armed in one behaviour (hide timers and refocus timers together).
MaxTimers == 3

\* getWMInfo() queries in flight at the same time.
MaxPending == 2

\* Fractional pointer deltas are fixed-point numbers: v stands for v / Scale.
Scale == 10

----------------------------------------------------------------------------
(* Values *)

Undefined == "undefined"

\* The values of this.hideTimeout: undefined until first assigned, null once a
\* hide timer has fired, or the handle setTimeout returned.
NoHandle    == [tag |-> "undefined", id |-> 0]
NullHandle  == [tag |-> "null", id |-> 0]
Handle(id)  == [tag |-> "Timeout", id |-> id]

\* JavaScript truthiness of a handle: if (this.hideTimeout).
Truthy(h) == h.tag = "Timeout"

\* this.window before initWindow has assigned it.
NoWindow == [defined |-> FALSE, visible |-> FALSE,
             bounds |-> [x |-> 0, y |-> 0, width |-> 0, height |-> 0]]

\* The delay of the refocus timer, setTimeout(..., 100).
FocusDelay == 100

\* The delays (ms) a hide-window message may carry.
Delays == {0, 300}

\* The fixed-point distances a move-pointer message may carry:
\* (2.9, -2.9), (-2.0, 0.5) and (-0.5, 2.0).
Dists == { [x |-> 29, y |-> -29], [x |-> -20, y |-> 5], [x |-> -5, y |-> 20] }

Keys == {"Ctrl+C"}
Uris == {"https://kando.menu"}

Rect(x, y, w, h) == [x |-> x, y |-> y, width |-> w, height |-> h]

Contains(r, p) ==
    /\ r.x <= p.x /\ p.x < r.x + r.width
    /\ r.y <= p.y /\ p.y < r.y + r.height

\* A display as Electron reports it: its bounds and its work area.
Display(b, w) == [bounds |-> b, workArea |-> w]

SingleSetup == << Display(Rect(0, 0, 1920, 1080), Rect(0, 0, 1920, 1080)) >>

DualSetup ==
    << Display(Rect(0, 0, 1920, 1080), Rect(0, 0, 1920, 1040)),
       Display(Rect(1920, 0, 1280, 1024), Rect(1920, 30, 1280, 994)) >>

DisplaySetups == {SingleSetup, DualSetup}

\* Absolute pointer positions a backend may report.
AllPointers ==
    { [x |-> 100, y |-> 50], [x |-> 1919, y |-> 1079], [x |-> 1920, y |-> 0] }

\* The pointer is always on one of the displays.
Pointers(ds) ==
    { p \in AllPointers : \E i \in 1..Len(ds) : Contains(ds[i].bounds, p) }

WindowClasses == {Undefined, "firefox"}

\* The WMInfo snapshots getWMInfo() may resolve with.
WMInfos(ds) ==
    { [pointerX |-> p.x, pointerY |-> p.y, windowClass |-> c] :
        p \in Pointers(ds), c \in WindowClasses }

----------------------------------------------------------------------------
(* createExampleMenu, app.ts:240-287 *)

CHILDREN_PER_LEVEL == <<8, 7, 7>>

TEST_ICONS ==
    << "play_circle", "public", "arrow_circle_right", "terminal",
       "settings", "apps", "arrow_circle_left", "fullscreen" >>

\* Mutant of addChildren: the children are numbered from 1.
RECURSIVE addChildren_FromOne(_, _)
addChildren_FromOne(parentName, level) ==
    IF level < Len(CHILDREN_PER_LEVEL)
    THEN [ k \in 1..CHILDREN_PER_LEVEL[level + 1] |->
            LET i    == k
                name == parentName \o " " \o ToString(i)
            IN  [ name      |-> name,
                  icon      |-> TEST_ICONS[(i % Len(TEST_ICONS)) + 1],
                  iconTheme |-> "material-symbols-rounded",
                  children  |-> addChildren_FromOne(name, level + 1) ] ]
    ELSE << >>

\* The children addChildren(parent, level) gives to a parent of that name.
\* i runs over 0 .. CHILDREN_PER_LEVEL[level] - 1; TLA+ sequences start at 1.
RECURSIVE addChildren(_, _)
addChildren(parentName, level) ==
    IF level < Len(CHILDREN_PER_LEVEL)
    THEN [ k \in 1..CHILDREN_PER_LEVEL[level + 1] |->
            LET i    == k - 1
                name == parentName \o " " \o ToString(i)
            IN  [ name      |-> name,
                  icon      |-> TEST_ICONS[(i % Len(TEST_ICONS)) + 1],
                  iconTheme |-> "material-symbols-rounded",
                  children  |-> addChildren(name, level + 1) ] ]
    ELSE << >>

createExampleMenu ==
    [ nodes    |-> [ name      |-> "Node",
                     icon      |-> "open_with",
                     iconTheme |-> "material-symbols-rounded",
                     children  |-> addChildren("Node", 0) ],
      shortcut |-> "Control+Space",
      centered |-> FALSE ]

\* A menu a user may already have in menus.json.
UserMenu(n) ==
    [ nodes    |-> [ name      |-> n,
                     icon      |-> "apps",
                     iconTheme |-> "material-symbols-rounded",
                     children  |-> << >> ],
      shortcut |-> "Control+Space",
      centered |-> FALSE ]

\* The menus array holds references to menu objects.  A state names each
\* object by a reference, and MenuObject gives the object a reference names:
\* ExampleRef names the object the call this.createExampleMenu() returned.
ExampleRef == "createExampleMenu()"

MenuObject(ref) == IF ref = ExampleRef THEN createExampleMenu ELSE UserMenu(ref)

\* The contents menus.json may have when the process starts.
StoredMenus == { << >>, << "A", "B" >> }

----------------------------------------------------------------------------
(* Helpers of the handlers *)

\* Math.floor on a fixed-point number (\div rounds towards minus infinity).
MathFloor(v) == v \div Scale

SqDist(r, p) ==
    LET dx == IF p.x < r.x THEN r.x - p.x
              ELSE IF p.x >= r.x + r.width THEN p.x - (r.x + r.width - 1) ELSE 0
        dy == IF p.y < r.y THEN r.y - p.y
              ELSE IF p.y >= r.y + r.height THEN p.y - (r.y + r.height - 1) ELSE 0
    IN  dx * dx + dy * dy

\* screen.getDisplayNearestPoint(p): the display whose bounds are nearest to p
\* (the one containing p when there is one).
getDisplayNearestPoint(ds, p) ==
    LET i == CHOOSE i \in 1..Len(ds) :
                \A j \in 1..Len(ds) : SqDist(ds[i].bounds, p) <= SqDist(ds[j].bounds, p)
    IN  ds[i]

\* Mutant of showBounds: the work area itself, without the extra pixel.
showBounds_NoMargin(workarea) ==
    Rect(workarea.x, workarea.y, workarea.width, workarea.height)

\* The bounds showMenu gives the window for a work area.
showBounds(workarea) ==
    Rect(workarea.x, workarea.y, workarea.width + 1, workarea.height + 1)

\* Mutant of relPointer: the absolute pointer position.
relPointer_Absolute(info, workarea) ==
    [x |-> info.pointerX, y |-> info.pointerY]

\* The pointer position showMenu sends with show-menu.
relPointer(info, workarea) ==
    [x |-> info.pointerX - workarea.x, y |-> info.pointerY - workarea.y]

\* setTimeout: a new pending timer; handles are never reused.
Timer(id, kind, delay) == [id |-> id, kind |-> kind, delay |-> delay]

\* clearTimeout(handle): removes the timer with that handle, if still pending.
clearTimeout(ts, handle) == { t \in ts : t.id # handle.id }

\* The bounds initWindow gives the new window on the primary display.
initBounds(display) ==
    Rect(display.workArea.x, display.workArea.y,
         display.workArea.width + 1, display.workArea.height + 1)

HideTimers  == { t \in timers : t.kind = "hide" }
FocusTimers == { t \in timers : t.kind = "focus" }

\* A pending timer is due before another one armed earlier only if its delay
\* is strictly shorter; apart from that, timers may fire in any order.
MayFire(t) == \A u \in timers : u.id < t.id => t.delay < u.delay

Step(handler, input, effects) ==
    [handler |-> handler, input |-> input, effects |-> effects]

\* The process runs, and handles events, until quit() has settled: quit() is
\* called when the application is about to exit.
Running == quitPc \in {"idle", "awaitUnbind"}

----------------------------------------------------------------------------
(* The state after construction, app.ts:27-61 *)

Init ==
    /\ backend \in {"null", "present"}
    /\ displays \in DisplaySetups
    /\ menus \in StoredMenus
    /\ initPc = "new"
    /\ quitPc = "idle"
    /\ subscribed = FALSE
    /\ closed = [app |-> FALSE, menu |-> FALSE]
    /\ window = NoWindow
    /\ ipc = FALSE
    /\ tray = FALSE
    /\ shortcut = "none"
    /\ hideTimeout = NoHandle
    /\ timers = {}
    /\ nextTimer = 0
    /\ wmPending = 0
    /\ step = Step("constructor", << >>, << >>)

----------------------------------------------------------------------------
(* init(), app.ts:64-111 *)

\* Mutant of InitStart: the menu store is seeded and the settings are
\* subscribed to before the backend is looked at.
InitStart_SeedFirst ==
    /\ initPc = "new" /\ Running
    /\ menus' = IF Len(menus) = 0 THEN << ExampleRef >> ELSE menus
    /\ subscribed' = TRUE
    /\ IF backend = "null"
       THEN /\ initPc' = "rejected"
            /\ step' = Step("init", << >>, << <<"throw", "No backend found.">> >>)
       ELSE /\ initPc' = "awaitBackendInit"
            /\ step' = Step("init", << >>, << <<"backend.init">> >>)
    /\ UNCHANGED <<backend, displays, quitPc, closed, window, ipc, tray, shortcut,
                   hideTimeout, timers, nextTimer, wmPending>>

\* Mutant of InitStart: the menu store is not seeded.
InitStart_NoSeed ==
    /\ initPc = "new" /\ Running
    /\ IF backend = "null"
       THEN /\ initPc' = "rejected"
            /\ step' = Step("init", << >>, << <<"throw", "No backend found.">> >>)
            /\ UNCHANGED subscribed
       ELSE /\ subscribed' = TRUE
            /\ initPc' = "awaitBackendInit"
            /\ step' = Step("init", << >>, << <<"backend.init">> >>)
    /\ UNCHANGED <<backend, displays, menus, quitPc, closed, window, ipc, tray,
                   shortcut, hideTimeout, timers, nextTimer, wmPending>>

\* init() up to its first await: throws without a backend; otherwise seeds
\* the menu store, subscribes to the settings and calls backend.init().
InitStart ==
    /\ initPc = "new" /\ Running
    /\ IF backend = "null"
       THEN /\ initPc' = "rejected"
            /\ step' = Step("init", << >>, << <<"throw", "No backend found.">> >>)
            /\ UNCHANGED <<menus, subscribed>>
       ELSE /\ menus' = IF Len(menus) = 0 THEN << ExampleRef >> ELSE menus
            /\ subscribed' = TRUE
            /\ initPc' = "awaitBackendInit"
            /\ step' = Step("init", << >>, << <<"backend.init">> >>)
    /\ UNCHANGED <<backend, displays, quitPc, closed, window, ipc, tray, shortcut,
                   hideTimeout, timers, nextTimer, wmPending>>

\* Mutant of BackendInitResolve: the shortcut is bound before the window
\* is created.
BackendInitResolve_BindsFirst ==
    /\ initPc = "awaitBackendInit" /\ Running
    /\ initPc' = "awaitLoadURL"
    /\ shortcut' = "binding"
    /\ step' = Step("init", <<"backend.init", "resolved">>,
                    << <<"backend.bindShortcut">>, <<"new BrowserWindow">>,
                       <<"loadURL">> >>)
    /\ UNCHANGED <<backend, displays, menus, quitPc, subscribed, closed, window, ipc,
                   tray, hideTimeout, timers, nextTimer, wmPending>>

\* backend.init() resolves: initWindow() creates the BrowserWindow on the
\* primary display, hidden, and awaits loadURL; this.window is not yet set.
BackendInitResolve ==
    /\ initPc = "awaitBackendInit" /\ Running
    /\ initPc' = "awaitLoadURL"
    /\ step' = Step("init", <<"backend.init", "resolved">>,
                    << <<"new BrowserWindow">>, <<"loadURL">> >>)
    /\ UNCHANGED <<backend, displays, menus, quitPc, subscribed, closed, window, ipc,
                   tray, shortcut, hideTimeout, timers, nextTimer, wmPending>>

\* backend.init() rejects: the await rethrows and nothing catches it.
BackendInitReject ==
    /\ initPc = "awaitBackendInit" /\ Running
    /\ initPc' = "rejected"
    /\ step' = Step("init", <<"backend.init", "rejected">>,
                    << <<"throw", "backend.init">> >>)
    /\ UNCHANGED <<backend, displays, menus, quitPc, subscribed, closed, window, ipc,
                   tray, shortcut, hideTimeout, timers, nextTimer, wmPending>>

\* loadURL resolves: this.window is set, the IPC handlers are registered, the
\* tray is created and backend.bindShortcut() is called.
LoadURLResolve ==
    /\ initPc = "awaitLoadURL" /\ Running
    /\ window' = [defined |-> TRUE, visible |-> FALSE,
                  bounds |-> initBounds(displays[1])]
    /\ ipc' = TRUE
    /\ tray' = TRUE
    /\ shortcut' = "binding"
    /\ initPc' = "awaitBind"
    /\ step' = Step("init", <<"loadURL", "resolved">>,
                    << <<"this.window">>, <<"initRendererIPC">>, <<"new Tray">>,
                       <<"backend.bindShortcut">> >>)
    /\ UNCHANGED <<backend, displays, menus, quitPc, subscribed, closed,
                   hideTimeout, timers, nextTimer, wmPending>>

\* loadURL rejects: initWindow() and with it init() reject.
LoadURLReject ==
    /\ initPc = "awaitLoadURL" /\ Running
    /\ initPc' = "rejected"
    /\ step' = Step("init", <<"loadURL", "rejected">>, << <<"throw", "loadURL">> >>)
    /\ UNCHANGED <<backend, displays, menus, quitPc, subscribed, closed, window, ipc,
                   tray, shortcut, hideTimeout, timers, nextTimer, wmPending>>

\* backend.bindShortcut() resolves: init() completes.
BindShortcutResolve ==
    /\ initPc = "awaitBind" /\ Running
    /\ initPc' = "done"
    /\ shortcut' = IF shortcut = "binding" THEN "bound" ELSE shortcut
    /\ step' = Step("init", <<"backend.bindShortcut", "resolved">>, << <<"return">> >>)
    /\ UNCHANGED <<backend, displays, menus, quitPc, subscribed, closed, window, ipc,
                   tray, hideTimeout, timers, nextTimer, wmPending>>

\* backend.bindShortcut() rejects: the await rethrows and nothing catches it.
BindShortcutReject ==
    /\ initPc = "awaitBind" /\ Running
    /\ initPc' = "rejected"
    /\ shortcut' = IF shortcut = "binding" THEN "failed" ELSE shortcut
    /\ step' = Step("init", <<"backend.bindShortcut", "rejected">>,
                    << <<"throw", "backend.bindShortcut">> >>)
    /\ UNCHANGED <<backend, displays, menus, quitPc, subscribed, closed, window, ipc,
                   tray, hideTimeout, timers, nextTimer, wmPending>>

----------------------------------------------------------------------------
(* quit(), app.ts:114-121 *)

\* Both Settings stores are closed, the application settings first.
closeStores == [app |-> TRUE, menu |-> TRUE]

\* Mutant of QuitStart: the stores are closed before the shortcuts are
\* released.
QuitStart_CloseFirst ==
    /\ quitPc = "idle"
    /\ closed' = closeStores
    /\ IF backend # "null"
       THEN /\ quitPc' = "awaitUnbind"
            /\ step' = Step("quit", << >>,
                            << <<"appSettings.close">>, <<"menuSettings.close">>,
                               <<"backend.unbindAllShortcuts">> >>)
       ELSE /\ quitPc' = "done"
            /\ step' = Step("quit", << >>,
                            << <<"appSettings.close">>, <<"menuSettings.close">>,
                               <<"return">> >>)
    /\ UNCHANGED <<backend, displays, menus, initPc, subscribed, window, ipc, tray,
                   shortcut, hideTimeout, timers, nextTimer, wmPending>>

\* quit() up to its await: with a backend it calls unbindAllShortcuts();
\* without one it closes the stores at once.
QuitStart ==
    /\ quitPc = "idle"
    /\ IF backend # "null"
       THEN /\ quitPc' = "awaitUnbind"
            /\ step' = Step("quit", << >>, << <<"backend.unbindAllShortcuts">> >>)
            /\ UNCHANGED closed
       ELSE /\ quitPc' = "done"
            /\ closed' = closeStores
            /\ step' = Step("quit", << >>,
                            << <<"appSettings.close">>, <<"menuSettings.close">>,
                               <<"return">> >>)
    /\ UNCHANGED <<backend, displays, menus, initPc, subscribed, window, ipc, tray,
                   shortcut, hideTimeout, timers, nextTimer, wmPending>>

\* unbindAllShortcuts() resolves: the stores are closed and quit() completes.
UnbindResolve ==
    /\ quitPc = "awaitUnbind"
    /\ quitPc' = "done"
    /\ shortcut' = "none"
    /\ closed' = closeStores
    /\ step' = Step("quit", <<"backend.unbindAllShortcuts", "resolved">>,
                    << <<"appSettings.close">>, <<"menuSettings.close">>,
                       <<"return">> >>)
    /\ UNCHANGED <<backend, displays, menus, initPc, subscribed, window, ipc, tray,
                   hideTimeout, timers, nextTimer, wmPending>>

\* Mutant of UnbindReject: the rejection is caught and quit() goes on.
UnbindReject_Caught ==
    /\ quitPc = "awaitUnbind"
    /\ quitPc' = "done"
    /\ closed' = closeStores
    /\ step' = Step("quit", <<"backend.unbindAllShortcuts", "rejected">>,
                    << <<"console.error">>, <<"appSettings.close">>,
                       <<"menuSettings.close">>, <<"return">> >>)
    /\ UNCHANGED <<backend, displays, menus, initPc, subscribed, window, ipc, tray,
                   shortcut, hideTimeout, timers, nextTimer, wmPending>>

\* unbindAllShortcuts() rejects: the await rethrows and nothing catches it.
UnbindReject ==
    /\ quitPc = "awaitUnbind"
    /\ quitPc' = "rejected"
    /\ step' = Step("quit", <<"backend.unbindAllShortcuts", "rejected">>,
                    << <<"throw", "backend.unbindAllShortcuts">> >>)
    /\ UNCHANGED <<backend, displays, menus, initPc, subscribed, closed, window, ipc,
                   tray, shortcut, hideTimeout, timers, nextTimer, wmPending>>

----------------------------------------------------------------------------
(* showMenu(), app.ts:128-173 *)

\* The tray's 'Open' entry is clicked: showMenu() calls backend.getWMInfo().
TrayOpen ==
    /\ tray /\ Running
    /\ wmPending < MaxPending
    /\ wmPending' = wmPending + 1
    /\ step' = Step("showMenu", "tray", << <<"backend.getWMInfo">> >>)
    /\ UNCHANGED <<backend, displays, menus, initPc, quitPc, subscribed, closed,
                   window, ipc, tray, shortcut, hideTimeout, timers, nextTimer>>

\* The backend runs the action of the trigger shortcut, which it may do from
\* the moment bindShortcut() received it: showMenu() calls backend.getWMInfo().
ShortcutPressed ==
    /\ shortcut \in {"binding", "bound"} /\ Running
    /\ wmPending < MaxPending
    /\ wmPending' = wmPending + 1
    /\ step' = Step("showMenu", "shortcut", << <<"backend.getWMInfo">> >>)
    /\ UNCHANGED <<backend, displays, menus, initPc, quitPc, subscribed, closed,
                   window, ipc, tray, shortcut, hideTimeout, timers, nextTimer>>

\* Mutant of GetWMInfoResolve: the window is shown before show-menu is sent.
GetWMInfoResolve_ShowFirst(info) ==
    LET workarea == getDisplayNearestPoint(
                        displays, [x |-> info.pointerX, y |-> info.pointerY]).workArea
        id       == nextTimer + 1
        cleared  == IF Truthy(hideTimeout)
                    THEN clearTimeout(timers, hideTimeout)
                    ELSE timers
        clearFx  == IF Truthy(hideTimeout)
                    THEN << <<"clearTimeout", hideTimeout.id>> >>
                    ELSE << >>
    IN  /\ wmPending > 0 /\ Running
        /\ nextTimer < MaxTimers
        /\ wmPending' = wmPending - 1
        /\ IF ~window.defined
           THEN /\ timers' = cleared
                /\ step' = Step("getWMInfo.then", info,
                                clearFx \o << <<"console.error">> >>)
                /\ UNCHANGED <<window, nextTimer>>
           ELSE IF Len(menus) = 0
           THEN /\ timers' = cleared
                /\ window' = [window EXCEPT !.bounds = showBounds(workarea)]
                /\ step' = Step("getWMInfo.then", info,
                                clearFx \o << <<"setBounds", showBounds(workarea)>>,
                                              <<"console.log">>,
                                              <<"console.error">> >>)
                /\ UNCHANGED nextTimer
           ELSE /\ timers' = cleared \cup {Timer(id, "focus", FocusDelay)}
                /\ nextTimer' = id
                /\ window' = [window EXCEPT !.bounds = showBounds(workarea),
                                            !.visible = TRUE]
                /\ step' = Step("getWMInfo.then", info,
                                clearFx \o << <<"setBounds", showBounds(workarea)>>,
                                              <<"console.log">>,
                                              <<"show">>,
                                              <<"send", "show-menu", menus[1],
                                                relPointer(info, workarea)>>,
                                              <<"setTimeout", id, FocusDelay>> >>)
        /\ UNCHANGED <<backend, displays, menus, initPc, quitPc, subscribed, closed,
                       ipc, tray, shortcut, hideTimeout>>

\* getWMInfo() resolves with info: the .then callback, app.ts:131-169.  The
\* show-menu effect names the menu whose nodes are sent by its reference.  An
\* exception thrown in it (this.window undefined at setBounds, no first menu
\* at menu.nodes) ends it there and is logged by the .catch callback.
GetWMInfoResolve(info) ==
    LET workarea == getDisplayNearestPoint(
                        displays, [x |-> info.pointerX, y |-> info.pointerY]).workArea
        id       == nextTimer + 1
        cleared  == IF Truthy(hideTimeout)
                    THEN clearTimeout(timers, hideTimeout)
                    ELSE timers
        clearFx  == IF Truthy(hideTimeout)
                    THEN << <<"clearTimeout", hideTimeout.id>> >>
                    ELSE << >>
    IN  /\ wmPending > 0 /\ Running
        /\ nextTimer < MaxTimers
        /\ wmPending' = wmPending - 1
        /\ IF ~window.defined
           THEN /\ timers' = cleared
                /\ step' = Step("getWMInfo.then", info,
                                clearFx \o << <<"console.error">> >>)
                /\ UNCHANGED <<window, nextTimer>>
           ELSE IF Len(menus) = 0
           THEN /\ timers' = cleared
                /\ window' = [window EXCEPT !.bounds = showBounds(workarea)]
                /\ step' = Step("getWMInfo.then", info,
                                clearFx \o << <<"setBounds", showBounds(workarea)>>,
                                              <<"console.log">>,
                                              <<"console.error">> >>)
                /\ UNCHANGED nextTimer
           ELSE /\ timers' = cleared \cup {Timer(id, "focus", FocusDelay)}
                /\ nextTimer' = id
                /\ window' = [window EXCEPT !.bounds = showBounds(workarea),
                                            !.visible = TRUE]
                /\ step' = Step("getWMInfo.then", info,
                                clearFx \o << <<"setBounds", showBounds(workarea)>>,
                                              <<"console.log">>,
                                              <<"send", "show-menu", menus[1],
                                                relPointer(info, workarea)>>,
                                              <<"show">>,
                                              <<"setTimeout", id, FocusDelay>> >>)
        /\ UNCHANGED <<backend, displays, menus, initPc, quitPc, subscribed, closed,
                       ipc, tray, shortcut, hideTimeout>>

\* Mutant of GetWMInfoReject: the hide timer is cancelled on rejection too.
GetWMInfoReject_Cancels ==
    /\ wmPending > 0 /\ Running
    /\ wmPending' = wmPending - 1
    /\ timers' = IF Truthy(hideTimeout) THEN clearTimeout(timers, hideTimeout)
                  ELSE timers
    /\ step' = Step("getWMInfo.catch", << >>, << <<"console.error">> >>)
    /\ UNCHANGED <<backend, displays, menus, initPc, quitPc, subscribed, closed,
                   window, ipc, tray, shortcut, hideTimeout, nextTimer>>

\* getWMInfo() rejects: the .catch callback, app.ts:170-172.
GetWMInfoReject ==
    /\ wmPending > 0 /\ Running
    /\ wmPending' = wmPending - 1
    /\ step' = Step("getWMInfo.catch", << >>, << <<"console.error">> >>)
    /\ UNCHANGED <<backend, displays, menus, initPc, quitPc, subscribed, closed,
                   window, ipc, tray, shortcut, hideTimeout, timers, nextTimer>>

\* Mutant of FocusTimerFires: the callback shows the window to focus it.
FocusTimerFires_Shows(t) ==
    /\ t \in FocusTimers /\ MayFire(t) /\ Running
    /\ timers' = timers \ {t}
    /\ window' = [window EXCEPT !.visible = TRUE]
    /\ step' = Step("focusTimer", t.id, << <<"focus">> >>)
    /\ UNCHANGED <<backend, displays, menus, initPc, quitPc, subscribed, closed,
                   ipc, tray, shortcut, hideTimeout, nextTimer, wmPending>>

\* The refocus timer fires: this.window.focus(), app.ts:166-168.
FocusTimerFires(t) ==
    /\ t \in FocusTimers /\ MayFire(t) /\ Running
    /\ timers' = timers \ {t}
    /\ step' = Step("focusTimer", t.id, << <<"focus">> >>)
    /\ UNCHANGED <<backend, displays, menus, initPc, quitPc, subscribed, closed,
                   window, ipc, tray, shortcut, hideTimeout, nextTimer, wmPending>>

----------------------------------------------------------------------------
(* The IPC handlers, app.ts:206-238.  The renderer may send any message at  *)
(* any time once the handlers are registered.                                *)

\* 'show-dev-tools', app.ts:207-209.
ShowDevTools ==
    /\ ipc /\ Running
    /\ step' = Step("show-dev-tools", << >>, << <<"openDevTools">> >>)
    /\ UNCHANGED <<backend, displays, menus, initPc, quitPc, subscribed, closed,
                   window, ipc, tray, shortcut, hideTimeout, timers, nextTimer,
                   wmPending>>

\* 'hide-window', app.ts:214-219: arms a timer and stores its handle.
HideWindow(delay) ==
    LET id == nextTimer + 1
    IN  /\ ipc /\ Running
        /\ nextTimer < MaxTimers
        /\ timers' = timers \cup {Timer(id, "hide", delay)}
        /\ nextTimer' = id
        /\ hideTimeout' = Handle(id)
        /\ step' = Step("hide-window", delay, << <<"setTimeout", id, delay>> >>)
        /\ UNCHANGED <<backend, displays, menus, initPc, quitPc, subscribed, closed,
                       window, ipc, tray, shortcut, wmPending>>

\* The callback of a hide timer, app.ts:215-218.
HideTimerFires(t) ==
    /\ t \in HideTimers /\ MayFire(t) /\ Running
    /\ timers' = timers \ {t}
    /\ window' = [window EXCEPT !.visible = FALSE]
    /\ hideTimeout' = NullHandle
    /\ step' = Step("hideTimer", t.id, << <<"hide">> >>)
    /\ UNCHANGED <<backend, displays, menus, initPc, quitPc, subscribed, closed,
                   ipc, tray, shortcut, nextTimer, wmPending>>

\* 'log', app.ts:221-223.
Log ==
    /\ ipc /\ Running
    /\ step' = Step("log", << >>, << <<"console.log">> >>)
    /\ UNCHANGED <<backend, displays, menus, initPc, quitPc, subscribed, closed,
                   window, ipc, tray, shortcut, hideTimeout, timers, nextTimer,
                   wmPending>>

\* Mutant of SimulateKeys: the keys are relayed before the window is hidden.
SimulateKeys_RelayFirst(keys) ==
    /\ ipc /\ Running
    /\ window' = [window EXCEPT !.visible = FALSE]
    /\ step' = Step("simulate-keys", keys,
                    << <<"backend.simulateKeys", keys>>, <<"hide">> >>)
    /\ UNCHANGED <<backend, displays, menus, initPc, quitPc, subscribed, closed,
                   ipc, tray, shortcut, hideTimeout, timers, nextTimer, wmPending>>

\* 'simulate-keys', app.ts:225-228.
SimulateKeys(keys) ==
    /\ ipc /\ Running
    /\ window' = [window EXCEPT !.visible = FALSE]
    /\ step' = Step("simulate-keys", keys,
                    << <<"hide">>, <<"backend.simulateKeys", keys>> >>)
    /\ UNCHANGED <<backend, displays, menus, initPc, quitPc, subscribed, closed,
                   ipc, tray, shortcut, hideTimeout, timers, nextTimer, wmPending>>

\* Mutant of MovePointer: the window is hidden as for the other commands.
MovePointer_Hides(dist) ==
    /\ ipc /\ Running
    /\ window' = [window EXCEPT !.visible = FALSE]
    /\ step' = Step("move-pointer", dist,
                    << <<"backend.movePointer", MathFloor(dist.x), MathFloor(dist.y)>> >>)
    /\ UNCHANGED <<backend, displays, menus, initPc, quitPc, subscribed, closed,
                   ipc, tray, shortcut, hideTimeout, timers, nextTimer, wmPending>>

\* 'move-pointer', app.ts:230-232.
MovePointer(dist) ==
    /\ ipc /\ Running
    /\ step' = Step("move-pointer", dist,
                    << <<"backend.movePointer", MathFloor(dist.x), MathFloor(dist.y)>> >>)
    /\ UNCHANGED <<backend, displays, menus, initPc, quitPc, subscribed, closed,
                   window, ipc, tray, shortcut, hideTimeout, timers, nextTimer,
                   wmPending>>

\* 'open-uri', app.ts:234-237.
OpenUri(uri) ==
    /\ ipc /\ Running
    /\ window' = [window EXCEPT !.visible = FALSE]
    /\ step' = Step("open-uri", uri,
                    << <<"hide">>, <<"shell.openExternal", uri>> >>)
    /\ UNCHANGED <<backend, displays, menus, initPc, quitPc, subscribed, closed,
                   ipc, tray, shortcut, hideTimeout, timers, nextTimer, wmPending>>

----------------------------------------------------------------------------
(* The specification *)

Next ==
    \/ InitStart
    \/ BackendInitResolve
    \/ BackendInitReject
    \/ LoadURLResolve
    \/ LoadURLReject
    \/ BindShortcutResolve
    \/ BindShortcutReject
    \/ QuitStart
    \/ UnbindResolve
    \/ UnbindReject
    \/ TrayOpen
    \/ ShortcutPressed
    \/ \E info \in WMInfos(displays) : GetWMInfoResolve(info)
    \/ GetWMInfoReject
    \/ \E t \in timers : FocusTimerFires(t)
    \/ ShowDevTools
    \/ \E delay \in Delays : HideWindow(delay)
    \/ \E t \in timers : HideTimerFires(t)
    \/ Log
    \/ \E keys \in Keys : SimulateKeys(keys)
    \/ \E dist \in Dists : MovePointer(dist)
    \/ \E uri \in Uris : OpenUri(uri)

Spec == Init /\ [][Next]_vars

----------------------------------------------------------------------------
(* Vocabulary of the properties *)

\* The last step had an effect of this kind.
HasEffect(tag) == \E i \in DOMAIN step.effects : step.effects[i][1] = tag

\* The last step was a show transition that ran to its end.
Shown == step.handler = "getWMInfo.then" /\ HasEffect("show")

\* The pointer position of the WMInfo the last show transition received.
ShownPointer == [x |-> step.input.pointerX, y |-> step.input.pointerY]

\* The show-menu message the last show transition sent.
ShowMenuMessage ==
    step.effects[CHOOSE i \in DOMAIN step.effects : step.effects[i][1] = "send"]

\* The three states of the show/hide machine.
Hidden          == window.defined /\ ~window.visible /\ HideTimers = {}
Visible         == window.defined /\ window.visible /\ HideTimers = {}
HidingScheduled == window.defined /\ window.visible /\ HideTimers # {}

\* Truncation towards zero of a fixed-point number.
Trunc(v) == IF v >= 0 THEN v \div Scale ELSE -((-v) \div Scale)

----------------------------------------------------------------------------
(* C1: in every reachable state at most one hide timer is pending, also    *)
(* when a hide-window message arrives while a hide timer is armed.          *)
(* The 'hide-window' handler arms a timer without cancelling the one whose *)
(* handle it overwrites, so TLC finds this violated.                        *)

C1_AtMostOneHideTimer == Cardinality(HideTimers) <= 1

(* C2: once a show transition has run, no hide timer armed before it is    *)
(* still pending.  Every hide timer pending right after the transition was *)
(* armed before it.  showMenu cancels only the timer this.hideTimeout      *)
(* names, so after two hide-window messages TLC finds this violated.        *)

C2_ShowCancelsEveryPendingHide == Shown => HideTimers = {}

(* C3: when getWMInfo rejects, the window's visibility and bounds, the     *)
(* pending timers (hide and refocus) and the hide-timer handle are the     *)
(* same after the .catch callback as before it, no show-menu message is    *)
(* sent, and the only effect is the logging of the rejection.               *)

C3_RejectionLeavesStateUnchanged ==
    [][ step'.handler = "getWMInfo.catch" =>
          /\ window' = window
          /\ timers' = timers
          /\ nextTimer' = nextTimer
          /\ hideTimeout' = hideTimeout
          /\ step'.effects = << <<"console.error">> >> ]_vars

\* getWMInfo has rejected while a hide was scheduled.
C3_Witness ==
    /\ step.handler = "getWMInfo.catch"
    /\ HidingScheduled
    /\ Truthy(hideTimeout)

(* C4: after every successful show transition the window's bounds are      *)
(* (wx, wy, ww + 1, wh + 1) for the work area (wx, wy, ww, wh) of the      *)
(* display that contains the pointer.                                       *)

C4_BoundsOfPointerDisplay ==
    Shown =>
        /\ \E i \in DOMAIN displays : Contains(displays[i].bounds, ShownPointer)
        /\ \A i \in DOMAIN displays :
              Contains(displays[i].bounds, ShownPointer) =>
                  window.bounds = [ x      |-> displays[i].workArea.x,
                                    y      |-> displays[i].workArea.y,
                                    width  |-> displays[i].workArea.width + 1,
                                    height |-> displays[i].workArea.height + 1 ]

\* A show with the pointer on the second display: the window was created on
\* the primary display and has moved.
C4_Witness ==
    /\ Shown
    /\ Len(displays) = 2
    /\ Contains(displays[2].bounds, ShownPointer)
    /\ window.bounds = Rect(1920, 30, 1281, 995)

(* C5: the show-menu message of every successful show transition carries   *)
(* the pointer position relative to the origin of the work area of the     *)
(* display that contains the pointer, the work area the bounds were set    *)
(* from; pointer (100, 50) on the single work area (0, 0, 1920, 1080)      *)
(* gives bounds (0, 0, 1921, 1081) and pointer position (100, 50).          *)

C5_PointerRelativeToWorkArea ==
    Shown =>
        /\ \A i \in DOMAIN displays :
              Contains(displays[i].bounds, ShownPointer) =>
                  /\ ShowMenuMessage[4] =
                        [ x |-> ShownPointer.x - displays[i].workArea.x,
                          y |-> ShownPointer.y - displays[i].workArea.y ]
                  /\ window.bounds.x = displays[i].workArea.x
                  /\ window.bounds.y = displays[i].workArea.y
        /\ (displays = SingleSetup /\ ShownPointer = [x |-> 100, y |-> 50]) =>
              /\ window.bounds = Rect(0, 0, 1921, 1081)
              /\ ShowMenuMessage[4] = [x |-> 100, y |-> 50]

\* A show on the second display, with the pointer above the work area: the
\* relative position differs from the absolute one and is negative in y.
C5_Witness ==
    /\ Shown
    /\ ShownPointer = [x |-> 1920, y |-> 0]
    /\ ShowMenuMessage[4] = [x |-> 0, y |-> -30]

(* C6: every move-pointer message is relayed to movePointer with each      *)
(* delta truncated towards zero, (2.9, -2.9) as (2, -2).  The handler uses *)
(* Math.floor, which gives (2, -3), so TLC finds this violated.             *)

C6_DeltasTruncatedTowardsZero ==
    step.handler = "move-pointer" =>
        step.effects[1] =
            <<"backend.movePointer", Trunc(step.input.x), Trunc(step.input.y)>>

(* C7: a simulate-keys or open-uri message hides the window in the         *)
(* handling step itself: the window is not visible after the handler, the  *)
(* handler arms no timer and leaves the hide-timer handle alone, and the   *)
(* keys or the URI are relayed after the hide.                              *)

C7_ImmediateHide ==
    [][ step'.handler \in {"simulate-keys", "open-uri"} =>
          /\ ~window'.visible
          /\ timers' = timers
          /\ nextTimer' = nextTimer
          /\ hideTimeout' = hideTimeout
          /\ Len(step'.effects) = 2
          /\ step'.effects[1] = <<"hide">>
          /\ step'.effects[2] =
                <<(IF step'.handler = "simulate-keys"
                   THEN "backend.simulateKeys" ELSE "shell.openExternal"),
                  step'.input>> ]_vars

\* simulate-keys was handled while a hide timer was pending: the window is
\* hidden and the timer is still pending.
C7_Witness ==
    /\ step.handler = "simulate-keys"
    /\ ~window.visible
    /\ HideTimers # {}

(* C8: a move-pointer message leaves the window's visibility and bounds,   *)
(* the hide-timer handle and the pending timers as they were; its only     *)
(* effect is one movePointer call.                                          *)

C8_MovePointerFrame ==
    [][ step'.handler = "move-pointer" =>
          /\ window' = window
          /\ hideTimeout' = hideTimeout
          /\ timers' = timers
          /\ nextTimer' = nextTimer
          /\ Len(step'.effects) = 1
          /\ step'.effects[1][1] = "backend.movePointer" ]_vars

\* move-pointer was handled while a hide was scheduled.
C8_Witness ==
    /\ step.handler = "move-pointer"
    /\ HidingScheduled

(* C9, as claimed: a rejection of getWMInfo, backend.init, bindShortcut or  *)
(* unbindAllShortcuts never makes the operation that issued the call       *)
(* reject or throw.  init() and quit() await their backend calls without a *)
(* try/catch, so TLC finds this violated.                                   *)

C9_NoBackendRejectionEscapes ==
    /\ step.handler = "getWMInfo.catch" => ~HasEffect("throw")
    /\ (step.handler = "init" /\ step.input \in
            {<<"backend.init", "rejected">>, <<"backend.bindShortcut", "rejected">>})
         => (initPc # "rejected" /\ ~HasEffect("throw"))
    /\ (step.handler = "quit" /\ step.input = <<"backend.unbindAllShortcuts", "rejected">>)
         => (quitPc # "rejected" /\ ~HasEffect("throw"))

(* C9, as amended: only the rejection of getWMInfo is caught inside the    *)
(* orchestrator, where showMenu logs it and neither rejects nor throws; a  *)
(* rejection of backend.init or of bindShortcut makes init() reject, and a *)
(* rejection of unbindAllShortcuts makes quit() reject with neither store  *)
(* closed.                                                                  *)

C9_OnlyGetWMInfoRejectionCaught ==
    /\ step.handler = "getWMInfo.catch" =>
          (~HasEffect("throw") /\ HasEffect("console.error"))
    /\ (step.handler = "init" /\ step.input \in
            {<<"backend.init", "rejected">>, <<"backend.bindShortcut", "rejected">>})
         => (initPc = "rejected" /\ HasEffect("throw"))
    /\ (step.handler = "quit" /\ step.input = <<"backend.unbindAllShortcuts", "rejected">>)
         => /\ quitPc = "rejected"
            /\ HasEffect("throw")
            /\ closed = [app |-> FALSE, menu |-> FALSE]

\* unbindAllShortcuts has rejected after init() had completed.
C9_Witness ==
    /\ step.handler = "quit"
    /\ step.input = <<"backend.unbindAllShortcuts", "rejected">>
    /\ quitPc = "rejected"
    /\ initPc = "done"

(* C10: when init runs on a document with zero menus it stores exactly one *)
(* menu, the generated example menu, whose root node has children, and a   *)
(* document with menus is left as it is; at that point the window does not *)
(* exist, no IPC handler is registered, there is no tray and no shortcut   *)
(* has been handed to the backend; and every show transition finds a first *)
(* menu and sends it.                                                       *)

C10_SeededBeforeAnythingReadsIt ==
    [][ /\ (initPc = "new" /\ initPc' = "awaitBackendInit") =>
              /\ IF Len(menus) = 0
                 THEN /\ Len(menus') = 1
                      /\ MenuObject(menus'[1]) = createExampleMenu
                      /\ Len(MenuObject(menus'[1]).nodes.children) > 0
                 ELSE menus' = menus
              /\ ~window'.defined /\ ~ipc' /\ ~tray' /\ shortcut' = "none"
              /\ wmPending' = 0
        /\ step'.handler = "getWMInfo.then" =>
              /\ Len(menus') > 0
              /\ HasEffect("send")'
              /\ ShowMenuMessage'[3] = menus'[1] ]_vars

\* A show transition has sent the seeded example menu.
C10_Witness ==
    /\ Shown
    /\ menus = << ExampleRef >>
    /\ MenuObject(ShowMenuMessage[3]).nodes.name = "Node"
    /\ Len(MenuObject(ShowMenuMessage[3]).nodes.children) = 8

(* C11: without a backend init() fails before it has seeded the menu      *)
(* store, subscribed to the settings, created the window, registered the  *)
(* IPC handlers, created the tray or handed a shortcut to the backend;    *)
(* when backend.init() rejects, init() fails with no window, no IPC       *)
(* handler, no tray and no shortcut binding; and once init() has failed   *)
(* none of these is created later.                                         *)

C11_StartupFailureIsFatal ==
    [][ /\ backend' = "null" =>
              /\ initPc' \in {"new", "rejected"}
              /\ menus' \in StoredMenus
              /\ ~subscribed' /\ ~window'.defined /\ ~ipc' /\ ~tray'
              /\ shortcut' = "none"
        /\ (backend = "null" /\ initPc = "new" /\ initPc' # "new") =>
              (initPc' = "rejected" /\ HasEffect("throw")')
        /\ (step'.handler = "init" /\ step'.input = <<"backend.init", "rejected">>) =>
              /\ initPc' = "rejected"
              /\ ~window'.defined /\ ~ipc' /\ ~tray' /\ shortcut' = "none"
        /\ initPc = "rejected" =>
              /\ initPc' = "rejected"
              /\ window'.defined = window.defined
              /\ ipc' = ipc /\ tray' = tray
              /\ shortcut' \in {shortcut, "none"} ]_vars

\* init() has failed for want of a backend, on an empty menu document.
C11_Witness ==
    /\ backend = "null"
    /\ initPc = "rejected"
    /\ menus = << >>
    /\ step.handler = "init"

(* C12: the refocus timer is removed from the pending timers only by its   *)
(* own firing, and it fires once; its callback only calls focus(): it      *)
(* leaves the window's visibility and bounds, the hide-timer handle and    *)
(* the pending hide timers as they were, also when the window has been     *)
(* hidden in the meantime.                                                  *)

C12_RefocusTimerHarmless ==
    [][ /\ \A t \in FocusTimers :
              t \notin timers' => (step'.handler = "focusTimer" /\ step'.input = t.id)
        /\ step'.handler = "focusTimer" =>
              /\ window' = window
              /\ hideTimeout' = hideTimeout
              /\ HideTimers' = HideTimers
              /\ nextTimer' = nextTimer
              /\ Cardinality(timers') = Cardinality(timers) - 1
              /\ step'.effects = << <<"focus">> >> ]_vars

\* The refocus timer has fired after a hide timer had hidden the window.
C12_Witness ==
    /\ step.handler = "focusTimer"
    /\ ~window.visible
    /\ hideTimeout = NullHandle

(* C13: in every reachable state the machine is Hidden, Visible or         *)
(* HidingScheduled: a hide timer is pending only while the window is       *)
(* visible.  simulate-keys and open-uri hide the window without cancelling *)
(* a pending hide timer, and hide-window arms one whatever the visibility, *)
(* so TLC finds this violated.                                              *)

C13_HideTimerOnlyWhileVisible == HideTimers # {} => window.visible

(* C14: a successful show transition is one step, entered when getWMInfo  *)
(* resolves, whose effects are in this order: the armed hide timer, if    *)
(* any, is cancelled, the bounds are set, show-menu is sent, the window is *)
(* made visible and the refocus timer is armed; the timer the handle names *)
(* is no longer pending after it; and the window becomes visible in no     *)
(* other step, so no other event is handled between the cancellation and   *)
(* the window becoming visible.                                             *)

C14_ShowStepsInOrder ==
    [][ /\ (step'.handler = "getWMInfo.then" /\ HasEffect("show")') =>
              /\ [i \in DOMAIN step'.effects |-> step'.effects[i][1]] =
                    (IF Truthy(hideTimeout) THEN <<"clearTimeout">> ELSE << >>)
                    \o <<"setBounds", "console.log", "send", "show", "setTimeout">>
              /\ Truthy(hideTimeout) =>
                    /\ step'.effects[1] = <<"clearTimeout", hideTimeout.id>>
                    /\ \A t \in timers' : t.id # hideTimeout.id
              /\ window'.visible
              /\ window'.bounds = step'.effects[Len(step'.effects) - 4][2]
              /\ \E t \in timers' \ timers : t.kind = "focus" /\ t.delay = FocusDelay
              /\ wmPending' = wmPending - 1
        /\ (~window.visible /\ window'.visible) =>
              (step'.handler = "getWMInfo.then" /\ HasEffect("show")') ]_vars

\* A show transition from HidingScheduled: the armed hide timer was cancelled
\* first and no hide timer is pending.
C14_Witness ==
    /\ Shown
    /\ step.effects[1][1] = "clearTimeout"
    /\ Len(step.effects) = 6
    /\ HideTimers = {}

(* C15: when a hide timer fires the window is hidden and the hide-timer    *)
(* handle is cleared, leaving the machine Hidden with no hide timer        *)
(* pending.  After two hide-window messages the other timer is still       *)
(* pending when the first fires, so TLC finds this violated.                *)

C15_FiringLeavesHiddenAndNoTimer ==
    step.handler = "hideTimer" =>
        /\ ~window.visible
        /\ hideTimeout = NullHandle
        /\ HideTimers = {}

(* C16: whenever a hide timer is pending, this.hideTimeout is a handle and *)
(* names that timer.  The handle names only the timer armed last, and the  *)
(* firing of any hide timer nulls it, so TLC finds this violated.           *)

C16_HandleNamesEveryPendingHideTimer ==
    \A t \in HideTimers : Truthy(hideTimeout) /\ hideTimeout.id = t.id

(* C17: the tray and the shortcut binding exist only once backend.init()   *)
(* has completed, the window has been created and loaded and the IPC       *)
(* handlers have been registered; so a getWMInfo query is in flight, and a *)
(* show transition runs, only with this.window defined.                     *)

C17_TriggersAfterWindowAndIPC ==
    /\ (tray \/ shortcut # "none") =>
          /\ window.defined
          /\ ipc
          /\ initPc \in {"awaitBind", "done", "rejected"}
    /\ wmPending > 0 => window.defined
    /\ step.handler \in {"showMenu", "getWMInfo.then"} => window.defined
    /\ step.handler = "getWMInfo.then" => HasEffect("setBounds")

\* The shortcut has triggered showMenu while init() still awaits bindShortcut.
C17_Witness ==
    /\ step.handler = "showMenu"
    /\ step.input = "shortcut"
    /\ initPc = "awaitBind"
    /\ window.defined
    /\ wmPending > 0

(* C18: quit() closes the stores only after unbindAllShortcuts() has       *)
(* resolved, the application settings before the menu settings; without a  *)
(* backend it skips the unbind and closes both; and it fails only when     *)
(* unbindAllShortcuts() itself rejects, whatever became of the binding.     *)

FairSpec ==
    /\ Init /\ [][Next]_vars
    /\ WF_vars(\E t \in timers : HideTimerFires(t))
    /\ WF_vars(\E t \in timers : FocusTimerFires(t))

C15_HideTimersEventuallyGone ==
    (HideTimers # {}) ~> (HideTimers = {} \/ ~Running)

(* C19: the tree createExampleMenu returns has a root with 8 children,     *)
(* 7 children under every node at depth 1 and at depth 2 and none at       *)
(* depth 3, 457 nodes in all; the i-th child of a node, counted from 0, is *)
(* named '<parent name> <i>' and has the icon TEST_ICONS[i mod 8]; the     *)
(* menu has the shortcut 'Control+Space' and is not centered.               *)

\* The number of children of a node at depth 0, 1, 2 and 3.
FanOut == <<8, 7, 7, 0>>

RECURSIVE NodeCount(_)
NodeCount(node) ==
    LET RECURSIVE Sum(_)
        Sum(k) == IF k = 0 THEN 0 ELSE NodeCount(node.children[k]) + Sum(k - 1)
    IN  1 + Sum(Len(node.children))

RECURSIVE ShapeOK(_, _)
ShapeOK(node, depth) ==
    /\ Len(node.children) = FanOut[depth + 1]
    /\ \A k \in DOMAIN node.children :
          /\ node.children[k].name = node.name \o " " \o ToString(k - 1)
          /\ node.children[k].icon = TEST_ICONS[((k - 1) % 8) + 1]
          /\ ShapeOK(node.children[k], depth + 1)

\* The shape of the generated tree; it depends on no state.
ExampleMenuShape ==
    /\ createExampleMenu.nodes.name = "Node"
    /\ ShapeOK(createExampleMenu.nodes, 0)
    /\ NodeCount(createExampleMenu.nodes) = 457
    /\ createExampleMenu.shortcut = "Control+Space"
    /\ createExampleMenu.centered = FALSE

C19_ExampleMenuShape ==
    (\E i \in DOMAIN menus : menus[i] = ExampleRef) => ExampleMenuShape

\* init() has called createExampleMenu and stored the menu it returned.
C19_Witness ==
    /\ menus = << ExampleRef >>
    /\ MenuObject(menus[1]).nodes.children[8].children[7].children[7].name = "Node 7 6 6"
    /\ MenuObject(menus[1]).nodes.children[8].icon = "fullscreen"

====
